---- MODULE Spec2Model ----
(***************************************************************************)
(* The task store of the todo dashboard: the todos slice (its reducers     *)
(* addTodo, updateTodo, toggleComplete, deleteTodo, reorderActive), the     *)
(* store that loads it from and saves it to localStorage, the derived      *)
(* views of App.tsx, the form handler that dispatches add and update, and   *)
(* the handlers of the delete confirmation.                                 *)
(*                                                                          *)
(* Representation of JavaScript values:                                     *)
(*   undefined, null      the records Undefined and Null                    *)
(*   a string             Str(chars), chars a sequence of one-character     *)
(*                        strings                                           *)
(*   an ISO-8601 string   Iso(t), t the instant in milliseconds that        *)
(*                        Date.prototype.toISOString printed                *)
(*   a yyyy-mm-dd string  DateStr(d), d the day number since the epoch      *)
(*   a JSON text          Text(v), v the value JSON.parse makes of it, or   *)
(*                        NotJson for a text JSON.parse throws on           *)
(***************************************************************************)
EXTENDS Integers, Sequences, FiniteSets, TLC

VARIABLES
    items,        \* state.todos.items: the sequence of TodoItem records
    lastUpdated,  \* state.todos.lastUpdated: Iso(t) (null only in the type)
    now,          \* the system clock, the instant Date.now() returns
    issued,       \* how many ids nanoid() has returned so far
    isFormOpen,   \* App's isFormOpen
    editingTodo,  \* App's editingTodo: Null, or the id of the TodoItem being
                  \* edited (its id is all that handleFormSubmit reads of it)
    pendingDelete,      \* App's pendingDelete: Null, or the id of the TodoItem
                        \* the dialog asks about
    dontAskAgain,       \* App's dontAskAgain, the checkbox of the dialog
    skipDeleteConfirm,  \* App's skipDeleteConfirm
    slot,         \* localStorage['dashboard-todos']: Null when the key is
                  \* absent, else the string stored
    storage,      \* how localStorage answers: "working", "full" (setItem
                  \* throws) or "denied" (getItem and setItem throw)
    tz,           \* the offset of local time from UTC, in milliseconds
    dispatched,   \* history: an action was dispatched since the process started
    lastOp,       \* history: the handler that ran last, the id it was given and
                  \* what the task of that id was before it ran
    steps         \* how many handlers and clock ticks have run

\* the state of the delete confirmation
deleteVars == <<pendingDelete, dontAskAgain, skipDeleteConfirm>>

\* what the process finds around it and does not change
envVars == <<storage, tz>>

vars ==
    <<items, lastUpdated, now, issued, isFormOpen, editingTodo, deleteVars,
      slot, envVars, dispatched, lastOp, steps>>

----------------------------------------------------------------------------
(* Bounds of the model *)

\* a behaviour runs at most MaxSteps handlers and clock ticks
MaxSteps == 3

----------------------------------------------------------------------------
(* JavaScript values *)

Undefined == [kind |-> "undefined"]
Null == [kind |-> "null"]
Str(chars) == [kind |-> "string", chars |-> chars]
Iso(t) == [kind |-> "iso", t |-> t]
DateStr(d) == [kind |-> "date", day |-> d]
Bool(b) == [kind |-> "boolean", b |-> b]

DayMs == 24 * 60 * 60 * 1000

IsSpace(c) == c = " "

RECURSIVE TrimStart(_)
TrimStart(s) ==
    IF s # <<>> /\ IsSpace(Head(s)) THEN TrimStart(Tail(s)) ELSE s

RECURSIVE TrimEnd(_)
TrimEnd(s) ==
    IF s # <<>> /\ IsSpace(s[Len(s)]) THEN TrimEnd(SubSeq(s, 1, Len(s) - 1)) ELSE s

\* String.prototype.trim on the characters of a string
Trim(s) == TrimEnd(TrimStart(s))

\* ToBoolean: undefined, null and the empty string are falsy
Truthy(v) ==
    CASE v.kind = "undefined" -> FALSE
      [] v.kind = "null" -> FALSE
      [] v.kind = "string" -> v.chars # <<>>
      [] OTHER -> TRUE

\* x?.trim() ? x : undefined
TrimmedOrUndefined(v) ==
    IF v.kind = "string" /\ Trim(v.chars) # <<>> THEN v ELSE Undefined

\* x || undefined
OrUndefined(v) == IF Truthy(v) THEN v ELSE Undefined

\* new Date().toISOString() at clock value t
NowIso(t) == Iso(t)

----------------------------------------------------------------------------
(* The todos slice *)

Priorities == {"high", "medium", "low"}

\* the seed, built when the module is loaded at clock value t: its ids are the
\* three that nanoid() returns after the n it has returned before
starterTodos(t, n) == <<
    [ id |-> n + 1,
      title |-> Str(<<"P","l","a","n"," ","s","p","r","i","n","t"," ",
                      "b","a","c","k","l","o","g">>),
      \* the description literals are cut to their first word
      description |-> Str(<<"R","e","v","i","e","w">>),
      category |-> Str(<<"W","o","r","k">>),
      priority |-> "high",
      dueDate |-> Iso(t + 2 * DayMs),
      completed |-> FALSE,
      completedAt |-> Null,
      createdAt |-> Iso(t),
      order |-> 1 ],
    [ id |-> n + 2,
      title |-> Str(<<"G","r","o","c","e","r","y"," ","r","u","n">>),
      description |-> Str(<<"I","n","g","r","e","d","i","e","n","t","s">>),
      category |-> Str(<<"P","e","r","s","o","n","a","l">>),
      priority |-> "medium",
      dueDate |-> Iso(t + 4 * DayMs),
      completed |-> FALSE,
      completedAt |-> Null,
      createdAt |-> Iso(t),
      order |-> 2 ],
    [ id |-> n + 3,
      title |-> Str(<<"C","a","l","l"," ","m","o","m">>),
      description |-> Str(<<>>),
      category |-> Str(<<"F","a","m","i","l","y">>),
      priority |-> "low",
      dueDate |-> Undefined,
      completed |-> TRUE,
      completedAt |-> Iso(t),
      createdAt |-> Iso(t),
      order |-> 3 ] >>

\* items.find((item) => item.id === id): the index of the first match, 0 if none
RECURSIVE FindFrom(_, _, _)
FindFrom(its, id, i) ==
    IF i > Len(its) THEN 0
    ELSE IF its[i].id = id THEN i
    ELSE FindFrom(its, id, i + 1)

Find(its, id) == FindFrom(its, id, 1)

Max(a, b) == IF a >= b THEN a ELSE b

\* items.reduce((max, todo) => Math.max(max, todo.order), 0) + 1
RECURSIVE ReduceMaxOrder(_, _, _)
ReduceMaxOrder(its, i, max) ==
    IF i > Len(its) THEN max
    ELSE ReduceMaxOrder(its, i + 1, Max(max, its[i].order))

\* a next order taken over the active tasks only
NextOrderOfActive(its) ==
    ReduceMaxOrder(SelectSeq(its, LAMBDA todo : ~todo.completed), 1, 0) + 1

\* a next order taken from the number of tasks
NextOrderByLength(its) == Len(its) + 1

\* a next order taken from the last task of the collection
NextOrderOfLast(its) ==
    IF its = <<>> THEN 1 ELSE its[Len(its)].order + 1

NextOrder(its) == ReduceMaxOrder(its, 1, 0) + 1

\* the item addTodo pushes
NewTodo(its, p, id, t) ==
    [ id |-> id,
      title |-> p.title,
      description |-> TrimmedOrUndefined(p.description),
      category |-> TrimmedOrUndefined(p.category),
      priority |-> p.priority,
      dueDate |-> OrUndefined(p.dueDate),
      completed |-> FALSE,
      completedAt |-> Null,
      createdAt |-> NowIso(t),
      order |-> NextOrder(its) ]

addTodoItems(its, p, id, t) == Append(its, NewTodo(its, p, id, t))

\* an updateTodo that gives a new order only to a task that was completed
UpdatedTodoReopenOnly(its, i, ch, t) ==
    LET base == [its[i] EXCEPT
                    !.title = ch.title,
                    !.description = TrimmedOrUndefined(ch.description),
                    !.category = TrimmedOrUndefined(ch.category),
                    !.priority = ch.priority,
                    !.dueDate = OrUndefined(ch.dueDate)]
    IN  IF ch.completed.kind = "boolean"
        THEN LET flagged == [base EXCEPT
                                !.completed = ch.completed.b,
                                !.completedAt =
                                    IF ch.completed.b THEN NowIso(t) ELSE Null]
             IN  IF ~ch.completed.b /\ its[i].completed
                 THEN [flagged EXCEPT !.order = ReduceMaxOrder(its, 1, 0) + 1]
                 ELSE flagged
        ELSE base

\* the todo updateTodo leaves at index i; ch.completed is Undefined when omitted
\* and Bool(b) when given
UpdatedTodo(its, i, ch, t) ==
    LET base == [its[i] EXCEPT
                    !.title = ch.title,
                    !.description = TrimmedOrUndefined(ch.description),
                    !.category = TrimmedOrUndefined(ch.category),
                    !.priority = ch.priority,
                    !.dueDate = OrUndefined(ch.dueDate)]
    IN  IF ch.completed.kind = "boolean"
        THEN LET flagged == [base EXCEPT
                                !.completed = ch.completed.b,
                                !.completedAt =
                                    IF ch.completed.b THEN NowIso(t) ELSE Null]
             IN  IF ~ch.completed.b
                 THEN [flagged EXCEPT !.order = NextOrder(its)]
                 ELSE flagged
        ELSE base

updateTodoItems(its, id, ch, t) ==
    LET i == Find(its, id)
    IN  IF i = 0 THEN its
        ELSE [its EXCEPT ![i] = UpdatedTodo(its, i, ch, t)]

\* a toggleComplete that stamps completedAt on completion and never clears it
ToggledTodoKeepsStamp(its, i, t) ==
    LET flipped == [its[i] EXCEPT
                       !.completed = ~its[i].completed,
                       !.completedAt =
                           IF ~its[i].completed THEN NowIso(t) ELSE @]
    IN  IF ~flipped.completed
        THEN [flipped EXCEPT !.order = ReduceMaxOrder(its, 1, 0) + 1]
        ELSE flipped

\* a toggleComplete that puts the task made active first, at order 1
ToggledTodoToFront(its, i, t) ==
    LET flipped == [its[i] EXCEPT
                       !.completed = ~its[i].completed,
                       !.completedAt =
                           IF ~its[i].completed THEN NowIso(t) ELSE Null]
    IN  IF ~flipped.completed
        THEN [flipped EXCEPT !.order = 1]
        ELSE flipped

\* the todo toggleComplete leaves at index i
ToggledTodo(its, i, t) ==
    LET flipped == [its[i] EXCEPT
                       !.completed = ~its[i].completed,
                       !.completedAt =
                           IF ~its[i].completed THEN NowIso(t) ELSE Null]
    IN  IF ~flipped.completed
        THEN [flipped EXCEPT !.order = NextOrder(its)]
        ELSE flipped

\* a toggleComplete that then numbers the orders anew, by position
toggleCompleteItemsRenumbers(its, id, t) ==
    LET i == Find(its, id)
    IN  IF i = 0 THEN its
        ELSE LET toggled == [its EXCEPT ![i] = ToggledTodo(its, i, t)]
             IN  [k \in 1 .. Len(its) |-> [toggled[k] EXCEPT !.order = k]]

toggleCompleteItems(its, id, t) ==
    LET i == Find(its, id)
    IN  IF i = 0 THEN its
        ELSE [its EXCEPT ![i] = ToggledTodo(its, i, t)]

\* items.filter((item) => item.id !== id)
deleteTodoItems(its, id) == SelectSeq(its, LAMBDA item : item.id # id)

\* a reorderActive that assigns the index itself
RECURSIVE reorderFromZero(_, _, _)
reorderFromZero(its, updatedIds, k) ==
    IF k > Len(updatedIds) THEN its
    ELSE LET i == Find(its, updatedIds[k])
             next == IF i = 0 THEN its
                     ELSE [its EXCEPT ![i].order = k - 1]
         IN  reorderFromZero(next, updatedIds, k + 1)

\* updatedIds.forEach((id, index) => { ... todo.order = index + 1 }), from index k
RECURSIVE reorderFrom(_, _, _)
reorderFrom(its, updatedIds, k) ==
    IF k > Len(updatedIds) THEN its
    ELSE LET i == Find(its, updatedIds[k])
             \* k is the 1-based position: the 0-based index is k - 1
             next == IF i = 0 THEN its
                     ELSE [its EXCEPT ![i].order = (k - 1) + 1]
         IN  reorderFrom(next, updatedIds, k + 1)

reorderActiveItems(its, updatedIds) == reorderFrom(its, updatedIds, 1)

----------------------------------------------------------------------------
(* store.ts: the state kept in localStorage *)

\* a JSON value: an object is the function of its members, an array the
\* sequence of its elements; strings, null, numbers and booleans are the values
\* the todos hold
JObject(members) == [kind |-> "object", members |-> members]
JArray(elems) == [kind |-> "array", elems |-> elems]

\* a string, written as the value JSON.parse makes of it
Text(v) == [kind |-> "text", parsed |-> v]

\* a string JSON.parse throws a SyntaxError on
NotJson == [kind |-> "text", parsed |-> [kind |-> "syntaxError"]]

\* the empty string
EmptyText == [kind |-> "text", parsed |-> [kind |-> "syntaxError"], empty |-> TRUE]

\* the keys of a TodoItem: those declared with ? may hold undefined
RequiredKeys == {"id", "title", "priority", "completed", "createdAt", "order"}
OptionalKeys == {"description", "category", "dueDate", "completedAt"}
TodoKeys == RequiredKeys \cup OptionalKeys

\* a JSON.stringify that writes undefined as null
StringifyTodoNulls(todo) ==
    JObject([k \in TodoKeys |->
                IF k \in OptionalKeys /\ todo[k].kind = "undefined"
                THEN Null ELSE todo[k]])

\* JSON.stringify of a TodoItem: a member whose value is undefined is left out
StringifyTodo(todo) ==
    LET keys == RequiredKeys
                    \cup {k \in OptionalKeys : todo[k].kind # "undefined"}
    IN  JObject([k \in keys |-> todo[k]])

\* JSON.stringify({ todos: { items, lastUpdated } })
JSONstringify(its, updated) ==
    LET elems == [i \in 1 .. Len(its) |-> StringifyTodo(its[i])]
        todos == IF updated.kind = "undefined"
                 THEN [k \in {"items"} |-> JArray(elems)]
                 ELSE [items |-> JArray(elems), lastUpdated |-> updated]
    IN  Text(JObject([todos |-> JObject(todos)]))

\* value[key] of a value JSON.parse returned: undefined for a key it has not
Get(value, key) ==
    IF value.kind = "object" /\ key \in DOMAIN value.members
    THEN value.members[key]
    ELSE Undefined

\* loadState(): undefined when getItem throws, when the key is absent or holds
\* the empty string, and when JSON.parse throws; else what JSON.parse returns,
\* whatever it is
loadState(stored, answers) ==
    IF answers = "denied" THEN Undefined
    ELSE IF stored = Null \/ stored = EmptyText THEN Undefined
    ELSE IF stored.parsed.kind = "syntaxError" THEN Undefined
    ELSE stored.parsed

\* a TodoItem of preloadedState, as the code reads it: a key the object has not
\* reads undefined
PreloadedTodo(value) == [k \in TodoKeys |-> Get(value, k)]

\* configureStore({ reducer: { todos }, preloadedState }): the todos state the
\* store starts with is preloadedState.todos as it stands, and initialState
\* when preloadedState is undefined or has no todos
PreloadedItems(pre, t, n) ==
    LET todos == Get(pre, "todos")
    IN  IF todos = Undefined THEN starterTodos(t, n)
        ELSE LET elems == Get(todos, "items").elems
             IN  [i \in 1 .. Len(elems) |-> PreloadedTodo(elems[i])]

PreloadedLastUpdated(pre, t) ==
    LET todos == Get(pre, "todos")
    IN  IF todos = Undefined THEN NowIso(t)
        ELSE Get(todos, "lastUpdated")

----------------------------------------------------------------------------
(* App.tsx: the derived views and the form handler *)

\* the stable sort of Array.prototype.sort under (a, b) => a.order - b.order:
\* insert x after every element whose order is not greater
RECURSIVE InsertByOrder(_, _)
InsertByOrder(sorted, x) ==
    IF sorted = <<>> THEN <<x>>
    ELSE IF Head(sorted).order <= x.order
         THEN <<Head(sorted)>> \o InsertByOrder(Tail(sorted), x)
         ELSE <<x>> \o sorted

RECURSIVE SortByOrder(_)
SortByOrder(s) ==
    IF s = <<>> THEN <<>>
    ELSE InsertByOrder(SortByOrder(SubSeq(s, 1, Len(s) - 1)), s[Len(s)])

activeTodos(its) == SortByOrder(SelectSeq(its, LAMBDA todo : ~todo.completed))

HourMs == 60 * 60 * 1000

\* a setHours that truncates to the day of UTC
setHoursZeroUTC(t, offset) == (t \div DayMs) * DayMs

\* date.setHours(0, 0, 0, 0) on the Date of instant t, where local time is
\* offset ahead of UTC: the instant at which t's local calendar day began
setHoursZero(t, offset) == ((t + offset) \div DayMs) * DayMs - offset

\* overdueCount at clock value t
overdueCount(its, t, offset) ==
    LET today == setHoursZero(t, offset)
    IN  Len(SelectSeq(activeTodos(its), LAMBDA todo :
                IF ~Truthy(todo.dueDate) THEN FALSE
                ELSE setHoursZero(todo.dueDate.t, offset) < today))

\* TaskCard's isOverdue at clock value t
isOverdue(todo, t, offset) ==
    /\ Truthy(todo.dueDate)
    /\ ~todo.completed
    /\ setHoursZero(todo.dueDate.t, offset) < setHoursZero(t, offset)

\* the stable sort of completedTodos: (a, b) => 0 when either has no
\* completedAt, else the time of b minus the time of a. x goes after every
\* element the comparator does not put behind it
RECURSIVE InsertByCompletedAt(_, _)
InsertByCompletedAt(sorted, x) ==
    IF sorted = <<>> THEN <<x>>
    ELSE IF \/ ~Truthy(Head(sorted).completedAt)
            \/ ~Truthy(x.completedAt)
            \/ x.completedAt.t - Head(sorted).completedAt.t <= 0
         THEN <<Head(sorted)>> \o InsertByCompletedAt(Tail(sorted), x)
         ELSE <<x>> \o sorted

RECURSIVE SortByCompletedAt(_)
SortByCompletedAt(s) ==
    IF s = <<>> THEN <<>>
    ELSE InsertByCompletedAt(SortByCompletedAt(SubSeq(s, 1, Len(s) - 1)),
                             s[Len(s)])

completedTodos(its) ==
    SortByCompletedAt(SelectSeq(its, LAMBDA todo : todo.completed))

----------------------------------------------------------------------------
(* The arithmetic of completionRate: numbers are IEEE 754 doubles.           *)
(* A double greater than 0 is [bits, exp]: bits the 53 binary digits of its  *)
(* significand, most significant first and bits[1] = 1, exp the exponent of  *)
(* the last digit; its value is the number bits write in binary, times       *)
(* 2^exp. The double 0 is Zero.                                              *)

SignificandBits == 53

Zero == [bits |-> <<>>, exp |-> 0]

Min(a, b) == IF a <= b THEN a ELSE b

RECURSIVE Pow2(_)
Pow2(n) == IF n = 0 THEN 1 ELSE 2 * Pow2(n - 1)

\* 2^e modulo d, by squaring
RECURSIVE Pow2Mod(_, _)
Pow2Mod(e, d) ==
    IF e = 0 THEN 1 % d
    ELSE LET h == Pow2Mod(e \div 2, d)
         IN  (h * h * (IF e % 2 = 1 THEN 2 ELSE 1)) % d

\* the number that bits write in binary (bits of at most 30 digits)
RECURSIVE FromBits(_)
FromBits(bits) ==
    IF bits = <<>> THEN 0
    ELSE 2 * FromBits(SubSeq(bits, 1, Len(bits) - 1)) + bits[Len(bits)]

\* the binary digits of n, none for 0
RECURSIVE ToBits(_)
ToBits(n) == IF n = 0 THEN <<>> ELSE ToBits(n \div 2) \o <<n % 2>>

\* n written in exactly w binary digits, for 0 <= n < 2^w
FixedBits(n, w) == [i \in 1 .. w |-> (n \div Pow2(w - i)) % 2]

\* bits plus one: the last 0 becomes 1 and the 1s after it 0
Increment(bits) ==
    IF \A i \in 1 .. Len(bits) : bits[i] = 1
    THEN <<1>> \o [i \in 1 .. Len(bits) |-> 0]
    ELSE LET last == CHOOSE i \in 1 .. Len(bits) :
                         /\ bits[i] = 0
                         /\ \A j \in (i + 1) .. Len(bits) : bits[j] = 1
         IN  [i \in 1 .. Len(bits) |->
                 IF i < last THEN bits[i] ELSE IF i = last THEN 1 ELSE 0]

\* round to nearest, ties to even: the double nearest to the number that bits
\* (more than 53 digits, bits[1] = 1) write, times 2^exp, plus a rest below the
\* last digit that is not zero when sticky
RoundToNearestEven(bits, exp, sticky) ==
    LET kept == SubSeq(bits, 1, SignificandBits)
        guard == bits[SignificandBits + 1]
        below == \/ sticky
                 \/ \E i \in (SignificandBits + 2) .. Len(bits) : bits[i] = 1
        up == guard = 1 /\ (below \/ kept[SignificandBits] = 1)
        rounded == IF up THEN Increment(kept) ELSE kept
        e == exp + (Len(bits) - SignificandBits)
    IN  IF Len(rounded) > SignificandBits
        THEN [bits |-> SubSeq(rounded, 1, SignificandBits), exp |-> e + 1]
        ELSE [bits |-> rounded, exp |-> e]

\* what long division of r by d, for d <= r < 2 * d, holds before it takes
\* its digit i: r itself, then twice what the step before left, which is
\* r * 2^(i - 2) modulo d
DivisionRest(r, d, i) ==
    IF i = 1 THEN r ELSE 2 * ((r * Pow2Mod(i - 2, d)) % d)

\* the first n binary digits of r / d, for d <= r < 2 * d
QuotientBits(r, d, n) ==
    [i \in 1 .. n |-> IF DivisionRest(r, d, i) >= d THEN 1 ELSE 0]

\* the least s with a * 2^s >= b
RECURSIVE NormShift(_, _)
NormShift(a, b) == IF a >= b THEN 0 ELSE 1 + NormShift(2 * a, b)

\* a / b in doubles, for integers 0 <= a <= b, b > 0
Divide(a, b) ==
    IF a = 0 THEN Zero
    ELSE LET s == NormShift(a, b)
             r == a * Pow2(s)
         IN  RoundToNearestEven(QuotientBits(r, b, SignificandBits + 1),
                                0 - SignificandBits - s,
                                DivisionRest(r, b, SignificandBits + 2) # 0)

\* the binary digits of bits (53 of them) times k, for 2^6 <= k < 2^7: bits
\* is multiplied in three pieces, of 13, 20 and 20 digits, each product
\* carrying into the next
MulBits(bits, k) ==
    LET w == 20
        lo == FromBits(SubSeq(bits, Len(bits) - w + 1, Len(bits))) * k
        mid == FromBits(SubSeq(bits, Len(bits) - 2 * w + 1, Len(bits) - w)) * k
                   + lo \div Pow2(w)
        hi == FromBits(SubSeq(bits, 1, Len(bits) - 2 * w)) * k
                   + mid \div Pow2(w)
    IN  ToBits(hi) \o FixedBits(mid % Pow2(w), w) \o FixedBits(lo % Pow2(w), w)

\* x * k in doubles, k an integer from 2^6 to 2^7 - 1 (100 is one)
Times(x, k) ==
    IF x = Zero THEN Zero
    ELSE RoundToNearestEven(MulBits(x.bits, k), x.exp, FALSE)

\* Math.round(x) for a double 0 <= x < 2^30: the integer part, plus one when
\* the fraction is a half or more
MathRound(x) ==
    IF x = Zero THEN 0
    ELSE LET k == SignificandBits + x.exp
         IN  (IF k >= 1 THEN FromBits(SubSeq(x.bits, 1, k)) ELSE 0)
             + (IF k >= 0 THEN x.bits[k + 1] ELSE 0)

\* Math.min(100, Math.round((completed / total) * 100))
RoundedPercent(completed, total) ==
    Min(100, MathRound(Times(Divide(completed, total), 100)))

\* completionRate
completionRate(its) ==
    LET total == Len(its)
    IN  IF total = 0 THEN 0
        ELSE RoundedPercent(Len(completedTodos(its)), total)

\* value.split(','): the pieces between commas
RECURSIVE SplitComma(_, _)
SplitComma(s, piece) ==
    IF s = <<>> THEN <<piece>>
    ELSE IF Head(s) = "," THEN <<piece>> \o SplitComma(Tail(s), <<>>)
    ELSE SplitComma(Tail(s), Append(piece, Head(s)))

\* pieces.join(', ')
RECURSIVE JoinComma(_)
JoinComma(pieces) ==
    IF pieces = <<>> THEN <<>>
    ELSE IF Len(pieces) = 1 THEN pieces[1]
    ELSE pieces[1] \o <<",", " ">> \o JoinComma(Tail(pieces))

RECURSIVE MapTrim(_)
MapTrim(pieces) ==
    IF pieces = <<>> THEN <<>>
    ELSE <<Trim(Head(pieces))>> \o MapTrim(Tail(pieces))

normalizeCategories(chars) ==
    JoinComma(SelectSeq(MapTrim(SplitComma(chars, <<>>)), LAMBDA c : c # <<>>))

\* values.dueDate ? new Date(values.dueDate).toISOString() : undefined
\* (a yyyy-mm-dd string parses as midnight UTC of that day)
formattedDueDate(v) == IF Truthy(v) THEN Iso(v.day * DayMs) ELSE Undefined

\* a title taken as typed
untrimmedTitle(v) == v.title.chars

\* values.title.trim()
sanitizedTitle(v) == Trim(v.title.chars)

\* the payload handleFormSubmit dispatches for form values v
FormPayload(v) ==
    [ title |-> Str(sanitizedTitle(v)),
      description |-> Str(Trim(v.description.chars)),
      \* normalizedCategories || ''
      category |-> Str(normalizeCategories(v.category.chars)),
      priority |-> v.priority,
      dueDate |-> formattedDueDate(v.dueDate) ]

\* the changes handleFormSubmit dispatches for the task being edited: the
\* payload, with no completed key
FormChanges(v) ==
    LET p == FormPayload(v)
    IN  [ title |-> p.title, description |-> p.description,
          category |-> p.category, priority |-> p.priority,
          dueDate |-> p.dueDate, completed |-> Undefined ]

----------------------------------------------------------------------------
(* The inputs the handlers are given *)

\* an id taken from the number of tasks
idByLength == Len(items) + 1

\* nanoid(): a random 21-character id. Two calls return the same id with
\* negligible probability; the model has every call return an id that no
\* earlier call returned, the next of 1, 2, 3, ...
nanoid == issued + 1


\* the ids of the tasks in the collection, and one id that no task has
IdInputs == {items[i].id : i \in 1 .. Len(items)} \cup {nanoid}

\* a payload with a title and one whose title and description are blank
CreatePayloads ==
    { [ title |-> Str(<<"a">>), description |-> Undefined,
        category |-> Str(<<>>), priority |-> "medium", dueDate |-> Undefined ],
      [ title |-> Str(<<" ", " ">>), description |-> Str(<<" ">>),
        category |-> Str(<<"w">>), priority |-> "high", dueDate |-> Null ] }

\* the changes of updateTodo: a payload, with completed omitted, true or false
Changes ==
    { [ title |-> p.title, description |-> p.description,
        category |-> p.category, priority |-> p.priority,
        dueDate |-> p.dueDate, completed |-> c ] :
        p \in CreatePayloads, c \in {Undefined, Bool(TRUE), Bool(FALSE)} }

\* what the form holds at submit: a title with spaces around it, a blank title
FormValues ==
    { [ title |-> Str(<<" ", "a", " ">>), description |-> Str(<<>>),
        category |-> Str(<<" ", ",">>), priority |-> "medium",
        dueDate |-> Str(<<>>) ],
      [ title |-> Str(<<" ">>), description |-> Str(<<" ">>),
        category |-> Str(<<"w">>), priority |-> "high",
        dueDate |-> DateStr(0) ] }

\* the sequences of n different elements of S
RECURSIVE DistinctSeqs(_, _)
DistinctSeqs(S, n) ==
    IF n = 0 THEN {<<>>}
    ELSE UNION { {<<x>> \o s : s \in DistinctSeqs(S \ {x}, n - 1)} : x \in S }

\* the payloads of reorderActive: the desired order of the active list, so at
\* most as many ids as there are active tasks, each id once; an id may be that
\* of a completed task or of no task. And, for a payload that is no order,
\* one id twice
IdSeqs ==
    UNION { DistinctSeqs(IdInputs, n) : n \in 0 .. Len(activeTodos(items)) }
        \cup {<<id, id>> : id \in IdInputs}

----------------------------------------------------------------------------
(* The state machine *)

\* a subscriber that saves only when the items changed
saveStateOnChange ==
    /\ slot' = IF storage = "working" /\ items' # items
               THEN JSONstringify(items', lastUpdated')
               ELSE slot
    /\ dispatched' = TRUE

\* the subscriber of store.subscribe, which the store calls at the end of every
\* dispatch: saveState({ todos: store.getState().todos }). A setItem that
\* throws leaves the key as it was
saveState ==
    /\ slot' = IF storage = "working"
               THEN JSONstringify(items', lastUpdated')
               ELSE slot
    /\ dispatched' = TRUE

\* a touchState that writes nothing
touchStateStale == lastUpdated' = lastUpdated

\* touchState
touchState == lastUpdated' = NowIso(now)

\* fewer than MaxSteps handlers and ticks have run
Running == steps < MaxSteps

\* the history record of handler name given id (0: no id): whether a task has
\* the id, its completed and order before the handler runs, and whether the
\* handler before was toggleComplete of the same task
Op(name, id) ==
    LET i == Find(items, id)
    IN  [ name |-> name,
          id |-> id,
          found |-> i # 0,
          completed |-> i # 0 /\ items[i].completed,
          order |-> IF i # 0 THEN items[i].order ELSE 0,
          again |-> /\ i # 0
                    /\ name = "toggleComplete"
                    /\ lastOp.name = "toggleComplete"
                    /\ lastOp.id = id ]

\* one more handler or tick has run
Step(name, id) ==
    /\ steps' = steps + 1
    /\ lastOp' = Op(name, id)

\* the history record of a process that has run no handler
InitOp ==
    [name |-> "init", id |-> 0, found |-> FALSE,
     completed |-> FALSE, order |-> 0, again |-> FALSE]

\* the process started at clock value 0 in a browser that holds nothing of the
\* application, its local time UTC
Init ==
    /\ now = 0
    /\ items = starterTodos(now, 0)
    /\ lastUpdated = NowIso(now)
    /\ issued = 3
    /\ isFormOpen = FALSE
    /\ editingTodo = Null
    /\ pendingDelete = Null
    /\ dontAskAgain = FALSE
    /\ skipDeleteConfirm = FALSE
    /\ slot = Null
    /\ storage = "working"
    /\ tz = 0
    /\ dispatched = FALSE
    /\ lastOp = InitOp
    /\ steps = 0

\* the clock advances by a millisecond
Tick ==
    /\ Step("tick", 0)
    /\ now' = now + 1
    /\ UNCHANGED <<items, lastUpdated, issued, isFormOpen, editingTodo,
                   deleteVars, slot, envVars, dispatched>>

\* dispatch(addTodo(p))
addTodo(p) ==
    /\ Step("addTodo", nanoid)
    /\ items' = addTodoItems(items, p, nanoid, now)
    /\ issued' = issued + 1
    /\ touchState
    /\ saveState
    /\ UNCHANGED <<now, isFormOpen, editingTodo, deleteVars, envVars>>

\* an updateTodo that touches the state before it looks for the task
updateTodoTouchesFirst(id, ch) ==
    /\ steps' = steps + 1
    /\ lastOp' = Op("updateTodo", id)
    /\ items' = updateTodoItems(items, id, ch, now)
    /\ lastUpdated' = NowIso(now)
    /\ saveState
    /\ UNCHANGED <<now, issued, isFormOpen, editingTodo, deleteVars, envVars>>

\* dispatch(updateTodo({id, changes: ch}))
updateTodo(id, ch) ==
    /\ Step("updateTodo", id)
    /\ items' = updateTodoItems(items, id, ch, now)
    /\ IF Find(items, id) = 0 THEN UNCHANGED lastUpdated ELSE touchState
    /\ saveState
    /\ UNCHANGED <<now, issued, isFormOpen, editingTodo, deleteVars, envVars>>

\* dispatch(toggleComplete(id))
toggleComplete(id) ==
    /\ Step("toggleComplete", id)
    /\ items' = toggleCompleteItems(items, id, now)
    /\ IF Find(items, id) = 0 THEN UNCHANGED lastUpdated ELSE touchState
    /\ saveState
    /\ UNCHANGED <<now, issued, isFormOpen, editingTodo, deleteVars, envVars>>

\* a deleteTodo that touches the state only when it removed a task
deleteTodoTouchesIfRemoved(id) ==
    /\ steps' = steps + 1
    /\ lastOp' = Op("deleteTodo", id)
    /\ items' = deleteTodoItems(items, id)
    /\ IF items' = items THEN UNCHANGED lastUpdated
       ELSE lastUpdated' = NowIso(now)
    /\ saveState
    /\ UNCHANGED <<now, issued, isFormOpen, editingTodo, deleteVars, envVars>>

\* dispatch(deleteTodo(id))
deleteTodo(id) ==
    /\ Step("deleteTodo", id)
    /\ items' = deleteTodoItems(items, id)
    /\ touchState
    /\ saveState
    /\ UNCHANGED <<now, issued, isFormOpen, editingTodo, deleteVars, envVars>>

\* dispatch(reorderActive(updatedIds))
reorderActive(updatedIds) ==
    /\ Step("reorderActive", 0)
    /\ items' = reorderActiveItems(items, updatedIds)
    /\ touchState
    /\ saveState
    /\ UNCHANGED <<now, issued, isFormOpen, editingTodo, deleteVars, envVars>>

\* openForm(todo): todo is null (a new task) or one of the items
openForm(todo) ==
    /\ ~isFormOpen
    /\ Step("openForm", 0)
    /\ editingTodo' = todo
    /\ isFormOpen' = TRUE
    /\ UNCHANGED <<items, lastUpdated, now, issued, deleteVars, slot, envVars,
                   dispatched>>

closeForm ==
    /\ isFormOpen
    /\ Step("closeForm", 0)
    /\ editingTodo' = Null
    /\ isFormOpen' = FALSE
    /\ UNCHANGED <<items, lastUpdated, now, issued, deleteVars, slot, envVars,
                   dispatched>>

\* handleFormSubmit(values), from the open form: nothing on a blank title,
\* else updateTodo for the task being edited or addTodo, then closeForm
handleFormSubmit(v) ==
    /\ isFormOpen
    /\ Step("handleFormSubmit", IF editingTodo = Null THEN 0 ELSE editingTodo.id)
    /\ UNCHANGED <<now, deleteVars, envVars>>
    /\ IF sanitizedTitle(v) = <<>>
       THEN UNCHANGED <<items, lastUpdated, issued, isFormOpen, editingTodo,
                        slot, dispatched>>
       ELSE IF editingTodo # Null
       THEN /\ items' = updateTodoItems(items, editingTodo.id,
                            FormChanges(v), now)
            /\ IF Find(items, editingTodo.id) = 0
               THEN UNCHANGED lastUpdated ELSE touchState
            /\ saveState
            /\ UNCHANGED issued
            /\ editingTodo' = Null
            /\ isFormOpen' = FALSE
       ELSE /\ items' = addTodoItems(items, FormPayload(v), nanoid, now)
            /\ issued' = issued + 1
            /\ touchState
            /\ saveState
            /\ editingTodo' = Null
            /\ isFormOpen' = FALSE

\* requestDelete(id), from the delete button of a card; the dialog covers the
\* cards while a delete is pending
requestDelete(id) ==
    /\ pendingDelete = Null
    /\ Step("requestDelete", id)
    /\ IF Find(items, id) = 0
       THEN UNCHANGED <<items, lastUpdated, slot, dispatched, pendingDelete,
                        dontAskAgain>>
       ELSE IF skipDeleteConfirm
       THEN /\ items' = deleteTodoItems(items, id)
            /\ touchState
            /\ saveState
            /\ UNCHANGED <<pendingDelete, dontAskAgain>>
       ELSE /\ pendingDelete' = [id |-> id]
            /\ dontAskAgain' = FALSE
            /\ UNCHANGED <<items, lastUpdated, slot, dispatched>>
    /\ UNCHANGED <<now, issued, isFormOpen, editingTodo, skipDeleteConfirm,
                   envVars>>

\* the checkbox of the dialog: setDontAskAgain(event.target.checked)
setDontAskAgain(checked) ==
    /\ pendingDelete # Null
    /\ Step("setDontAskAgain", 0)
    /\ dontAskAgain' = checked
    /\ UNCHANGED <<items, lastUpdated, now, issued, isFormOpen, editingTodo,
                   pendingDelete, skipDeleteConfirm, slot, envVars, dispatched>>

\* a confirmDelete that remembers the choice whether or not the box is checked
confirmDeleteRemembers ==
    /\ pendingDelete # Null
    /\ steps' = steps + 1
    /\ lastOp' = Op("confirmDelete", pendingDelete.id)
    /\ skipDeleteConfirm' = TRUE
    /\ items' = deleteTodoItems(items, pendingDelete.id)
    /\ lastUpdated' = NowIso(now)
    /\ saveState
    /\ pendingDelete' = Null
    /\ UNCHANGED <<now, issued, isFormOpen, editingTodo, dontAskAgain, envVars>>

\* confirmDelete, the Delete button of the dialog
confirmDelete ==
    /\ pendingDelete # Null
    /\ Step("confirmDelete", pendingDelete.id)
    /\ skipDeleteConfirm' = IF dontAskAgain THEN TRUE ELSE skipDeleteConfirm
    /\ items' = deleteTodoItems(items, pendingDelete.id)
    /\ touchState
    /\ saveState
    /\ pendingDelete' = Null
    /\ UNCHANGED <<now, issued, isFormOpen, editingTodo, dontAskAgain, envVars>>

\* cancelDelete: the Cancel button, the Close button, the backdrop or Escape
cancelDelete ==
    /\ pendingDelete # Null
    /\ Step("cancelDelete", 0)
    /\ pendingDelete' = Null
    /\ UNCHANGED <<items, lastUpdated, now, issued, isFormOpen, editingTodo,
                   dontAskAgain, skipDeleteConfirm, slot, envVars, dispatched>>

\* the clock advances by d milliseconds
Later(d) ==
    /\ Step("later", 0)
    /\ now' = now + d
    /\ UNCHANGED <<items, lastUpdated, issued, isFormOpen, editingTodo,
                   deleteVars, slot, envVars, dispatched>>

\* the page is closed and opened again: a new process loads store.ts and
\* mounts App. skipDeleteConfirm is read back from its own key, which holds its
\* last value
Restart ==
    /\ Step("restart", 0)
    /\ items' = PreloadedItems(loadState(slot, storage), now, issued)
    /\ lastUpdated' = PreloadedLastUpdated(loadState(slot, storage), now)
    /\ issued' = issued + 3
    /\ isFormOpen' = FALSE
    /\ editingTodo' = Null
    /\ pendingDelete' = Null
    /\ dontAskAgain' = FALSE
    /\ dispatched' = FALSE
    /\ UNCHANGED <<now, skipDeleteConfirm, slot, envVars>>

Next ==
    \/ Running /\ Tick
    \/ Running /\ \E p \in CreatePayloads : addTodo(p)
    \/ Running /\ \E id \in IdInputs, ch \in Changes : updateTodo(id, ch)
    \/ Running /\ \E id \in IdInputs : toggleComplete(id)
    \/ Running /\ \E id \in IdInputs : deleteTodo(id)
    \/ Running /\ \E updatedIds \in IdSeqs : reorderActive(updatedIds)
    \/ Running /\ \E i \in 1 .. Len(items) : openForm([id |-> items[i].id])
    \/ Running /\ openForm(Null)
    \/ Running /\ closeForm
    \/ Running /\ \E v \in FormValues : handleFormSubmit(v)

Spec == Init /\ [][Next]_vars

----------------------------------------------------------------------------
(* The store across restarts: the process starts on whatever the key holds *)

\* what the key may hold when the process starts: nothing, the empty string,
\* a text that is no JSON, the JSON texts {} and {"todos":{"items":[]}}
PriorSlots ==
    { Null, EmptyText, NotJson,
      Text(JObject([k \in {} |-> Null])),
      Text(JObject([todos |-> JObject([items |-> JArray(<<>>)])])) }

StorageKinds == {"working", "full", "denied"}

PersistInit ==
    /\ now = 0
    /\ slot \in PriorSlots
    /\ storage \in StorageKinds
    /\ items = PreloadedItems(loadState(slot, storage), now, 0)
    /\ lastUpdated = PreloadedLastUpdated(loadState(slot, storage), now)
    /\ issued = 3
    /\ isFormOpen = FALSE
    /\ editingTodo = Null
    /\ pendingDelete = Null
    /\ dontAskAgain = FALSE
    /\ skipDeleteConfirm = FALSE
    /\ tz = 0
    /\ dispatched = FALSE
    /\ lastOp = InitOp
    /\ steps = 0

PersistNext ==
    \/ Running /\ Tick
    \/ Running /\ \E p \in CreatePayloads : addTodo(p)
    \/ Running /\ \E id \in IdInputs : toggleComplete(id)
    \/ Running /\ \E id \in IdInputs : deleteTodo(id)
    \/ Running /\ Restart

PersistSpec == PersistInit /\ [][PersistNext]_vars

----------------------------------------------------------------------------
(* The overdue count: the process runs in some time zone at some time of day *)

\* the local calendar day of instant t, in days since the epoch
LocalDay(t, offset) == (t + offset) \div DayMs

\* local time behind UTC (New York in winter), UTC, ahead of UTC (Kolkata)
TzOffsets == {0 - 5 * HourMs, 0, 5 * HourMs + 30 * 60 * 1000}

\* the process starts early or late in the fourth day of UTC
StartInstants == {3 * DayMs + 2 * HourMs, 3 * DayMs + 20 * HourMs}

\* how far the clock advances between handlers
ClockSteps == {12 * HourMs, 2 * DayMs}

\* what the form holds at submit: a title, and as due date the local date of
\* yesterday, that of today, or none
DueFormValues ==
    { [ title |-> Str(<<"a">>), description |-> Str(<<>>),
        category |-> Str(<<>>), priority |-> "low", dueDate |-> d ] :
        d \in { DateStr(LocalDay(now, tz) - 1), DateStr(LocalDay(now, tz)),
                Str(<<>>) } }

ViewInit ==
    /\ now \in StartInstants
    /\ tz \in TzOffsets
    /\ items = starterTodos(now, 0)
    /\ lastUpdated = NowIso(now)
    /\ issued = 3
    /\ isFormOpen = FALSE
    /\ editingTodo = Null
    /\ pendingDelete = Null
    /\ dontAskAgain = FALSE
    /\ skipDeleteConfirm = FALSE
    /\ slot = Null
    /\ storage = "working"
    /\ dispatched = FALSE
    /\ lastOp = InitOp
    /\ steps = 0

ViewNext ==
    \/ Running /\ \E d \in ClockSteps : Later(d)
    \/ Running /\ \E id \in IdInputs : toggleComplete(id)
    \/ Running /\ \E i \in 1 .. Len(items) : openForm([id |-> items[i].id])
    \/ Running /\ openForm(Null)
    \/ Running /\ \E v \in DueFormValues : handleFormSubmit(v)

ViewSpec == ViewInit /\ [][ViewNext]_vars

----------------------------------------------------------------------------
(* The handlers without reorderActive *)

NoReorderNext ==
    \/ Running /\ Tick
    \/ Running /\ \E p \in CreatePayloads : addTodo(p)
    \/ Running /\ \E id \in IdInputs, ch \in Changes : updateTodo(id, ch)
    \/ Running /\ \E id \in IdInputs : toggleComplete(id)
    \/ Running /\ \E id \in IdInputs : deleteTodo(id)
    \/ Running /\ \E i \in 1 .. Len(items) : openForm([id |-> items[i].id])
    \/ Running /\ openForm(Null)
    \/ Running /\ closeForm
    \/ Running /\ \E v \in FormValues : handleFormSubmit(v)

NoReorderSpec == Init /\ [][NoReorderNext]_vars

----------------------------------------------------------------------------
(* The delete confirmation *)

\* a behaviour of the delete confirmation runs at most MaxDeleteSteps handlers
\* and clock ticks
MaxDeleteSteps == 4

DeleteRunning == steps < MaxDeleteSteps

\* the process starts with the preference its key held: false in a browser
\* that holds nothing, true if an earlier process set it
DeleteInit ==
    /\ now = 0
    /\ items = starterTodos(now, 0)
    /\ lastUpdated = NowIso(now)
    /\ issued = 3
    /\ isFormOpen = FALSE
    /\ editingTodo = Null
    /\ pendingDelete = Null
    /\ dontAskAgain = FALSE
    /\ skipDeleteConfirm \in BOOLEAN
    /\ slot = Null
    /\ storage = "working"
    /\ tz = 0
    /\ dispatched = FALSE
    /\ lastOp = InitOp
    /\ steps = 0

DeleteNext ==
    \/ DeleteRunning /\ Tick
    \/ DeleteRunning /\ \E id \in IdInputs : requestDelete(id)
    \/ DeleteRunning /\ \E checked \in BOOLEAN : setDontAskAgain(checked)
    \/ DeleteRunning /\ confirmDelete
    \/ DeleteRunning /\ cancelDelete
    \/ DeleteRunning /\ \E id \in IdInputs : toggleComplete(id)

DeleteSpec == DeleteInit /\ [][DeleteNext]_vars

----------------------------------------------------------------------------
(* The completion rate: the collection grows to many tasks *)

\* the collection grows to MaxTasks tasks, MaxCompleted of them completed
MaxTasks == 40
MaxCompleted == 23

\* the payload of the tasks added
RatePayloads ==
    { [ title |-> Str(<<"a">>), description |-> Undefined,
        category |-> Str(<<>>), priority |-> "medium", dueDate |-> Undefined ] }

\* the id of the first task of the collection
FirstId == {items[i].id : i \in {i \in 1 .. Len(items) : i = 1}}

\* the id of the first task of the collection that is not completed
FirstNotCompletedId ==
    { items[i].id : i \in {i \in 1 .. Len(items) :
                              /\ ~items[i].completed
                              /\ \A j \in 1 .. (i - 1) : items[j].completed} }

CompletedCount == Len(SelectSeq(items, LAMBDA todo : todo.completed))

\* the tasks of the seed are deleted from the first on, before anything else
\* happens; then tasks are added up to MaxTasks and the first task not
\* completed is completed up to MaxCompleted
RateNext ==
    \/ /\ Len(items) < MaxTasks
       /\ issued < MaxTasks
       /\ \E p \in RatePayloads : addTodo(p)
    \/ /\ CompletedCount < MaxCompleted
       /\ \E id \in FirstNotCompletedId : toggleComplete(id)
    \/ /\ lastOp.name \in {"init", "deleteTodo"}
       /\ \E id \in FirstId : deleteTodo(id)

RateSpec == Init /\ [][RateNext]_vars

----------------------------------------------------------------------------
(* Helpers of the properties *)

TaskIds(its) == {its[i].id : i \in 1 .. Len(its)}

\* the greatest order of a non-empty collection
GreatestOrder(its) ==
    CHOOSE m \in {its[i].order : i \in 1 .. Len(its)} :
        \A i \in 1 .. Len(its) : its[i].order <= m

\* Array.prototype.lastIndexOf: the 0-based index of the last occurrence of id
\* in ids, -1 if there is none
LastIndexOf(ids, id) ==
    IF \E k \in 1 .. Len(ids) : ids[k] = id
    THEN (CHOOSE k \in 1 .. Len(ids) :
             ids[k] = id /\ \A m \in (k + 1) .. Len(ids) : ids[m] # id) - 1
    ELSE -1

\* the step mutated the store: add, delete, reorder, or update / toggle of a
\* task that exists
Mutation ==
    \/ lastOp'.name \in {"addTodo", "deleteTodo", "reorderActive"}
    \/ lastOp'.name \in {"updateTodo", "toggleComplete"} /\ lastOp'.found
    \/ items' # items

----------------------------------------------------------------------------
(* C1..C10 *)

\* C1: in every reachable state each task has a completedAt (an ISO string,
\* not null, not undefined) if and only if it is completed.
C1_CompletedAtIffCompleted ==
    \A i \in 1 .. Len(items) :
        (items[i].completedAt.kind = "iso") <=> items[i].completed

\* C1 witness: after a tick, a task completed at the new clock value stands
\* beside the seed's completed task made active again.
C1_Witness ==
    /\ \E i \in 1 .. Len(items) :
          items[i].completed /\ items[i].completedAt = Iso(1)
    /\ \E i \in 1 .. Len(items) : items[i].id = 3 /\ ~items[i].completed

\* C2: in every reachable state no two tasks have the same id.
C2_UniqueIds ==
    \A i, j \in 1 .. Len(items) : i # j => items[i].id # items[j].id

\* C2 witness: a task was added, one was deleted, and a task was added again.
C2_Witness ==
    /\ lastOp.name = "addTodo"
    /\ issued = 5
    /\ Len(items) = 4

\* C3: when toggleComplete or updateTodo turns a completed task active, its new
\* order is greater than the order of every other task, and it is the last
\* element of the active view.
C3_UncompleteMovesLast ==
    [][ lastOp'.name \in {"toggleComplete", "updateTodo"} =>
          \A i \in 1 .. Len(items) :
              ( /\ items[i].id = lastOp'.id
                /\ items[i].completed
                /\ ~items'[i].completed )
              => /\ \A j \in 1 .. Len(items') :
                       j # i => items'[i].order > items'[j].order
                 /\ LET view == activeTodos(items')
                    IN  view[Len(view)].id = lastOp'.id ]_vars

\* C3 witness: after reorderActive swapped tasks 1 and 2, toggleComplete made
\* task 3 active and it holds the greatest order.
C3_Witness ==
    /\ lastOp.name = "toggleComplete"
    /\ lastOp.id = 3
    /\ lastOp.completed
    /\ \E i, j, k \in 1 .. Len(items) :
          /\ items[i].id = 1 /\ items[i].order = 2
          /\ items[j].id = 2 /\ items[j].order = 1
          /\ items[k].id = 3 /\ ~items[k].completed /\ items[k].order = 3 + 1

\* C4: every add appends exactly one task, not completed, completedAt null,
\* whose order is the greatest order of the collection (active or completed
\* tasks alike) plus one, or 1 for an empty collection; the tasks that were
\* there are unchanged.
C4_AddAppendsAtEnd ==
    [][ issued' # issued =>
          /\ Len(items') = Len(items) + 1
          /\ SubSeq(items', 1, Len(items)) = items
          /\ LET new == items'[Len(items')]
             IN  /\ new.completed = FALSE
                 /\ new.completedAt = Null
                 /\ new.order =
                       IF items = <<>> THEN 1 ELSE GreatestOrder(items) + 1
          \* the empty collection
          /\ \A p \in CreatePayloads :
                addTodoItems(<<>>, p, nanoid, now)[1].order = 1 ]_vars

\* C4 witness: a task was added while the greatest order, 3, was that of the
\* completed task 3, and it got order 4.
C4_Witness ==
    /\ lastOp.name = "addTodo"
    /\ \E i \in 1 .. Len(items) :
          items[i].id = 3 /\ items[i].completed /\ items[i].order = 3
    /\ items[Len(items)].id = lastOp.id
    /\ items[Len(items)].order = 4

\* C5 as stated: the second of two toggleComplete calls in a row on a task
\* leaves completed as it was before the first, order not below what it was,
\* and completedAt null.
C5_ToggleTwiceNull ==
    [][ (lastOp'.name = "toggleComplete" /\ lastOp'.again) =>
          \A i \in 1 .. Len(items') :
              items'[i].id = lastOp'.id =>
                  /\ items'[i].completed = lastOp.completed
                  /\ items'[i].order >= lastOp.order
                  /\ items'[i].completedAt = Null ]_vars

\* C5, amended: the second of two toggleComplete calls in a row on a task
\* leaves completed as it was before the first and order not below what it
\* was; completedAt is null again if the task was active before the first, and
\* is the time of the second toggle if the task was completed.
C5_ToggleTwice ==
    [][ (lastOp'.name = "toggleComplete" /\ lastOp'.again) =>
          \A i \in 1 .. Len(items') :
              items'[i].id = lastOp'.id =>
                  /\ items'[i].completed = lastOp.completed
                  /\ items'[i].order >= lastOp.order
                  /\ ~lastOp.completed => items'[i].completedAt = Null
                  /\ lastOp.completed => items'[i].completedAt = Iso(now) ]_vars

\* C5 witness: task 1, active in the seed, was toggled twice in a row and is
\* active again with a greater order.
C5_Witness ==
    /\ lastOp.name = "toggleComplete"
    /\ lastOp.again
    /\ lastOp.id = 1
    /\ \E i \in 1 .. Len(items) :
          /\ items[i].id = 1
          /\ ~items[i].completed
          /\ items[i].completedAt = Null
          /\ items[i].order > 1

\* C6: reorderActive(orderedIds) sets order = index + 1 for every task whose id
\* occurs in orderedIds (the index of its last occurrence, should an id occur
\* twice), ignores the ids no task has, leaves every other task's order and
\* every other field unchanged, and neither adds nor removes a task; so the
\* active tasks it names stand in the active view in the sequence orderedIds
\* gives them. Stated of the reducer on every state it can run in and every
\* payload.
C6_ReorderAssignsIndex ==
    Running =>
        \A ids \in IdSeqs :
            LET out == reorderActiveItems(items, ids)
                view == activeTodos(out)
                index == [id \in TaskIds(items) |-> LastIndexOf(ids, id)]
            IN  /\ Len(out) = Len(items)
                /\ \A i \in 1 .. Len(items) :
                      /\ [out[i] EXCEPT !.order = items[i].order] = items[i]
                      /\ out[i].order =
                            IF index[items[i].id] = -1
                            THEN items[i].order
                            ELSE index[items[i].id] + 1
                /\ \A a, b \in 1 .. Len(view) :
                      ( /\ index[view[a].id] # -1
                        /\ index[view[b].id] # -1
                        /\ index[view[a].id] < index[view[b].id] )
                      => a < b

\* C6 witness: reorderActive([2, 1]) on the seed: task 2 has order 1, task 1
\* order 2, and the active view shows 2 before 1.
C6_Witness ==
    /\ lastOp.name = "reorderActive"
    /\ Len(items) = 3
    /\ items[1].id = 1 /\ items[1].order = 2
    /\ items[2].id = 2 /\ items[2].order = 1
    /\ items[3].order = 3
    /\ LET view == activeTodos(items)
       IN  Len(view) = 2 /\ view[1].id = 2 /\ view[2].id = 1

C8_UnknownIdNoOp ==
    [][ ( /\ lastOp'.name \in {"updateTodo", "toggleComplete"}
          /\ lastOp'.id \notin TaskIds(items) )
        => items' = items /\ lastUpdated' = lastUpdated ]_vars

\* C8 witness: after a tick, updateTodo ran with an id no task has, and
\* lastUpdated is still the time of the seed.
C8_Witness ==
    /\ lastOp.name = "updateTodo"
    /\ lastOp.id \notin TaskIds(items)
    /\ now = 1
    /\ lastUpdated = Iso(0)

\* C9 as stated: deleteTodo given an id that no task has leaves the collection
\* and lastUpdated unchanged.
C9_DeleteUnknownUntouched ==
    [][ ( /\ lastOp'.name = "deleteTodo"
          /\ lastOp'.id \notin TaskIds(items) )
        => items' = items /\ lastUpdated' = lastUpdated ]_vars

\* C9, amended: deleteTodo given an id that no task has leaves the collection
\* unchanged and sets lastUpdated to the current time.
C9_DeleteUnknownTouches ==
    [][ ( /\ lastOp'.name = "deleteTodo"
          /\ lastOp'.id \notin TaskIds(items) )
        => items' = items /\ lastUpdated' = Iso(now) ]_vars

\* C9 witness: after a tick, deleteTodo ran with an id no task has; the three
\* seed tasks are there and lastUpdated is the new time.
C9_Witness ==
    /\ lastOp.name = "deleteTodo"
    /\ lastOp.id \notin TaskIds(items)
    /\ Len(items) = 3
    /\ now = 1
    /\ lastUpdated = Iso(1)

\* C10: the clock never going back, lastUpdated never decreases, and after
\* every mutation (add, delete, reorderActive, update or toggle of a task
\* that exists) it is the clock value at that mutation.
C10_LastUpdatedFollowsClock ==
    [][ /\ now' >= now
        /\ lastUpdated'.t >= lastUpdated.t
        /\ Mutation => lastUpdated' = Iso(now') ]_vars

\* C10 witness: after two ticks reorderActive ran, and lastUpdated went from
\* the time of the seed to the clock value 2.
C10_Witness ==
    /\ lastOp.name = "reorderActive"
    /\ now = 2
    /\ lastUpdated = Iso(2)

----------------------------------------------------------------------------
(* C11..C20 *)

\* C11: while localStorage takes the writes, after every dispatch the key
\* holds the serialization of the items and lastUpdated in memory: once an
\* action was dispatched, no state has a mutation in memory that the key lacks.
C11_SlotHoldsState ==
    (storage = "working" /\ dispatched)
    => /\ slot = JSONstringify(items, lastUpdated)
       /\ PreloadedItems(loadState(slot, storage), now, issued) = items

\* C11 witness: after a tick, deleteTodo of an id no task has changed
\* lastUpdated alone, and the key holds the new lastUpdated.
C11_Witness ==
    /\ storage = "working"
    /\ dispatched
    /\ lastOp.name = "deleteTodo"
    /\ ~lastOp.found
    /\ lastUpdated = Iso(1)
    /\ Get(Get(slot.parsed, "todos"), "lastUpdated") = Iso(1)

\* C12: with working storage, once an action was dispatched, starting a new
\* process gives the store the collection it had (the same tasks in the same
\* sequence, every field, order included, reading the same value) and the
\* same lastUpdated.
C12_RestartRoundTrip ==
    [][ (lastOp'.name = "restart" /\ storage = "working" /\ dispatched)
        => items' = items /\ lastUpdated' = lastUpdated ]_vars

\* C12 witness: a task without description was added, and a new process
\* started with the four tasks, the fourth still without description.
C12_Witness ==
    /\ lastOp.name = "restart"
    /\ storage = "working"
    /\ slot = JSONstringify(items, lastUpdated)
    /\ Len(items) = 4
    /\ items[4].description = Undefined
    /\ items[4].completedAt = Null

\* the key holds a JSON text of the shape {todos: {items: [...], lastUpdated}}
\* and can be read
ExpectedShape ==
    /\ storage # "denied"
    /\ slot # Null
    /\ LET todos == Get(slot.parsed, "todos")
       IN  /\ Get(todos, "items").kind = "array"
           /\ "lastUpdated" \in DOMAIN todos.members

\* C13 as stated: a process that starts on a key that is absent, unreadable,
\* unparseable or not of the expected shape has loadState return undefined,
\* and its store starts from the seed of three tasks.
C13_LoadFallsBackToSeed ==
    (lastOp.name \in {"init", "restart"} /\ ~ExpectedShape)
    => /\ loadState(slot, storage) = Undefined
       /\ items = starterTodos(now, issued - 3)
       /\ lastUpdated = NowIso(now)

C20_DueTodayNotOverdue ==
    [][ \A v \in DueFormValues :
          ( /\ v.dueDate = DateStr(LocalDay(now, tz))
            /\ handleFormSubmit(v) )
          => LET id == IF editingTodo = Null THEN nanoid ELSE editingTodo.id
                 written == items'[Find(items', id)]
             IN  /\ written.dueDate = formattedDueDate(v.dueDate)
                 /\ overdueCount(<<[written EXCEPT !.completed = FALSE]>>,
                                 now', tz') = 0 ]_vars

\* C15 as stated: completionRate is 0 for the empty collection, else 100 times
\* the completed tasks over all tasks, rounded to the nearest integer with
\* halves rounded up, and always within 0 .. 100.
C15_RateIsRoundedRatio ==
    LET total == Len(items)
        completed == CompletedCount
    IN  /\ completionRate(items) \in 0 .. 100
        /\ completionRate(items) =
              IF total = 0 THEN 0
              ELSE (200 * completed + total) \div (2 * total)

\* C16: while skipDeleteConfirm is false, requestDelete(id) removes nothing
\* and records the task as pendingDelete; a task leaves the collection only
\* by confirmDelete, which removes the pending task, and cancelDelete leaves
\* the collection as it is. skipDeleteConfirm turns true only by a
\* confirmDelete with dontAskAgain checked, and stays true; while it is true,
\* requestDelete(id) removes the task at once and no delete is pending.
C16_DeleteAsksFirst ==
    [][ /\ (lastOp'.name = "requestDelete" /\ ~skipDeleteConfirm)
           => /\ items' = items
              /\ lastOp'.found => pendingDelete' = [id |-> lastOp'.id]
        /\ (~skipDeleteConfirm /\ TaskIds(items') # TaskIds(items))
           => lastOp'.name = "confirmDelete"
        /\ lastOp'.name = "confirmDelete"
           => /\ pendingDelete # Null
              /\ TaskIds(items') = TaskIds(items) \ {pendingDelete.id}
              /\ pendingDelete' = Null
        /\ lastOp'.name = "cancelDelete"
           => items' = items /\ pendingDelete' = Null
        /\ (~skipDeleteConfirm /\ skipDeleteConfirm')
           => lastOp'.name = "confirmDelete" /\ dontAskAgain
        /\ skipDeleteConfirm => skipDeleteConfirm'
        /\ (lastOp'.name = "requestDelete" /\ skipDeleteConfirm /\ lastOp'.found)
           => /\ TaskIds(items') = TaskIds(items) \ {lastOp'.id}
              /\ lastOp'.id \in TaskIds(items)
              /\ pendingDelete' = Null ]_vars

\* C16 witness: a delete was asked about and confirmed with the box checked
\* (only the dialog checks it), and the next requestDelete removed its task
\* at once: one task is left and nothing is pending.
C16_Witness ==
    /\ lastOp.name = "requestDelete"
    /\ lastOp.found
    /\ dontAskAgain
    /\ skipDeleteConfirm
    /\ pendingDelete = Null
    /\ Len(items) = 1

\* C17 as stated: updateTodo changes the order of a task only when the task
\* goes from completed to not completed; changes that omit completed, or give
\* the value the task has, leave its order unchanged, and changes that omit
\* completed leave completed and completedAt unchanged.
C17_OrderChangesOnlyOnReopen ==
    [][ lastOp'.name = "updateTodo" =>
          \A id \in IdInputs, ch \in Changes :
              updateTodo(id, ch) =>
                  \A i \in 1 .. Len(items) :
                      items[i].id = id =>
                          /\ items'[i].order # items[i].order
                             => items[i].completed /\ ~items'[i].completed
                          /\ ( \/ ch.completed = Undefined
                               \/ ch.completed = Bool(items[i].completed) )
                             => items'[i].order = items[i].order
                          /\ ch.completed = Undefined
                             => /\ items'[i].completed = items[i].completed
                                /\ items'[i].completedAt = items[i].completedAt
      ]_vars

\* C17, amended: updateTodo changes the order of the task exactly when its
\* changes give completed as false, whether the task was completed or not: the
\* order is then one more than the greatest order of the collection. Changes
\* that omit completed or give it as true leave the order unchanged, and
\* changes that omit it leave completed and completedAt unchanged; the form's
\* update omits it, so handleFormSubmit leaves all three unchanged.
C17_OrderChangesOnCompletedFalse ==
    [][ /\ lastOp'.name = "updateTodo" =>
              \A id \in IdInputs, ch \in Changes :
                  updateTodo(id, ch) =>
                      \A i \in 1 .. Len(items) :
                          items[i].id = id =>
                              /\ ch.completed = Bool(FALSE)
                                 => /\ items'[i].order = GreatestOrder(items) + 1
                                    /\ items'[i].order # items[i].order
                              /\ ch.completed # Bool(FALSE)
                                 => items'[i].order = items[i].order
                              /\ ch.completed = Undefined
                                 => /\ items'[i].completed = items[i].completed
                                    /\ items'[i].completedAt
                                           = items[i].completedAt
        /\ (lastOp'.name = "handleFormSubmit" /\ editingTodo # Null) =>
              /\ Len(items') = Len(items)
              /\ \A i \in 1 .. Len(items) :
                     /\ items'[i].order = items[i].order
                     /\ items'[i].completed = items[i].completed
                     /\ items'[i].completedAt = items[i].completedAt
      ]_vars

\* C17 witness: the first handler was an updateTodo of a starter task that
\* was not completed, and the task, still not completed, has order 4.
C17_Witness ==
    /\ lastOp.name = "updateTodo"
    /\ steps = 1
    /\ Len(items) = 3
    /\ \E i \in 1 .. 3 :
           /\ ~starterTodos(0, 0)[i].completed
           /\ ~items[i].completed
           /\ items[i].order = 4

\* C18: updateTodo(id), toggleComplete(id), the form's update and
\* deleteTodo(id) leave every task of another id as it was, field by field and
\* in place (deleteTodo takes out the one task of that id and keeps the rest
\* in sequence), and no handler, reorderActive and addTodo included, changes
\* the id or the createdAt of a task the collection holds.
C18_OnlyNamedTaskTouched ==
    [][ /\ ( \/ lastOp'.name \in {"updateTodo", "toggleComplete"}
             \/ lastOp'.name = "handleFormSubmit" /\ lastOp'.id # 0 )
           => /\ Len(items') = Len(items)
              /\ \A i \in 1 .. Len(items) :
                     items[i].id # lastOp'.id => items'[i] = items[i]
        /\ lastOp'.name = "deleteTodo"
           => IF lastOp'.found
              THEN \E k \in 1 .. Len(items) :
                       /\ items[k].id = lastOp'.id
                       /\ items' = SubSeq(items, 1, k - 1)
                                       \o SubSeq(items, k + 1, Len(items))
              ELSE items' = items
        /\ lastOp'.name # "deleteTodo"
           => /\ Len(items') >= Len(items)
              /\ \A i \in 1 .. Len(items) :
                     /\ items'[i].id = items[i].id
                     /\ items'[i].createdAt = items[i].createdAt ]_vars

\* C18 witness: after a tick, toggleComplete changed the first starter task;
\* the second is as it was seeded and the first has the createdAt of the seed.
C18_Witness ==
    /\ lastOp.name = "toggleComplete"
    /\ lastOp.found
    /\ now = 1
    /\ Len(items) = 3
    /\ items[1] # starterTodos(0, 0)[1]
    /\ items[1].id = 1
    /\ items[1].createdAt = Iso(0)
    /\ items[2] = starterTodos(0, 0)[2]

\* C19: from the starter tasks, as long as reorderActive has not run, no two
\* tasks of the collection have the same order, so no two active tasks tie
\* in the active view.
C19_OrdersDistinct ==
    /\ \A i, j \in 1 .. Len(items) :
           i # j => items[i].order # items[j].order
    /\ LET view == activeTodos(items)
       IN  \A k \in 1 .. Len(view) - 1 : view[k].order < view[k + 1].order

\* C19 witness: the first starter task was deleted and a task added: the
\* orders are 2, 3 and 4, where the number of tasks plus one would have given
\* a second 3.
C19_Witness ==
    /\ lastOp.name = "addTodo"
    /\ Len(items) = 3
    /\ 1 \notin TaskIds(items)
    /\ {items[i].order : i \in 1 .. Len(items)} = {2, 3, 4}

====
